---- MODULE Spec2Model ----
(***************************************************************************)
(* Model of the user registration and lookup handlers of                   *)
(* src/handlers_cr.go: UserHandler.CreateUser and UserHandler.GetUser      *)
(* running as concurrent request goroutines over one users table.          *)
(*                                                                         *)
(* Strings the code inspects character by character (email, password,      *)
(* name, the id query parameter) are sequences of one-character strings.   *)
(***************************************************************************)
EXTENDS Integers, Sequences, FiniteSets, TLC

VARIABLES users, nextID, clock, started, cr, gr

vars == <<users, nextID, clock, started, cr, gr>>

-----------------------------------------------------------------------------
(* Bounds of the model *)

(* requests the server accepts in a run *)
MaxRequests == 3
(* the clock runs from 0 to MaxClock, TicksPerSecond ticks to the second *)
MaxClock == 2
TicksPerSecond == 2

(* Program constants *)

MinPasswordLen == 8
MinAge == 18
MaxAge == 120

(* the goroutines the server runs handlers on *)
CreateProcs == {"c1", "c2"}
GetProcs == {"g1"}

-----------------------------------------------------------------------------
(* Character classes of the email pattern *)

Lower == {"a","b","c","d","e","f","g","h","i","j","k","l","m",
          "n","o","p","q","r","s","t","u","v","w","x","y","z"}
Upper == {"A","B","C","D","E","F","G","H","I","J","K","L","M",
          "N","O","P","Q","R","S","T","U","V","W","X","Y","Z"}
Digit == {"0","1","2","3","4","5","6","7","8","9"}
Letter == Lower \cup Upper
LocalChar == Letter \cup Digit \cup {".", "_", "%", "+", "-"}
DomainChar == Letter \cup Digit \cup {".", "-"}
Space == {" ", "\t", "\n", "\r"}

AllIn(s, class) == \A k \in 1..Len(s) : s[k] \in class

(* ^[a-zA-Z0-9._%+\-]+@[a-zA-Z0-9.\-]+\.[a-zA-Z]{2,}$ *)
EmailMatches(s) ==
    \E i \in 1..Len(s) : \E j \in (i + 1)..Len(s) :
        /\ i >= 2
        /\ AllIn(SubSeq(s, 1, i - 1), LocalChar)
        /\ s[i] = "@"
        /\ j >= i + 2
        /\ AllIn(SubSeq(s, i + 1, j - 1), DomainChar)
        /\ s[j] = "."
        /\ Len(s) - j >= 2
        /\ AllIn(SubSeq(s, j + 1, Len(s)), Letter)

RECURSIVE TrimLeft(_)
TrimLeft(s) == IF s # <<>> /\ Head(s) \in Space THEN TrimLeft(Tail(s)) ELSE s

RECURSIVE TrimRight(_)
TrimRight(s) ==
    IF s # <<>> /\ s[Len(s)] \in Space
    THEN TrimRight(SubSeq(s, 1, Len(s) - 1))
    ELSE s

TrimSpace(s) == TrimRight(TrimLeft(s))

(* fmt.Sprintf("hashed_%s", password) *)
HashPrefix == <<"h","a","s","h","e","d","_">>
HashPassword(password) == HashPrefix \o password

(* time.Time.Format(time.RFC3339): the instant cut to whole seconds *)
FormatRFC3339(t) == t \div TicksPerSecond

(* decimal rendering of an id, as a client puts it in the query string *)
DigitSeq == <<"0","1","2","3","4","5","6","7","8","9">>
DigitOf(d) == DigitSeq[d + 1]

RECURSIVE Itoa(_)
Itoa(n) == IF n < 10 THEN <<DigitOf(n)>> ELSE Itoa(n \div 10) \o <<DigitOf(n % 10)>>

ValueOf(c) == CHOOSE d \in 0..9 : DigitOf(d) = c

RECURSIVE ParseDigits(_)
ParseDigits(s) ==
    IF s = <<>> THEN 0 ELSE 10 * ParseDigits(SubSeq(s, 1, Len(s) - 1)) + ValueOf(s[Len(s)])

-----------------------------------------------------------------------------
(* The request bodies clients send to CreateUser *)

GoodPassword == <<"p","a","s","s","w","o","r","d">>
ShortPassword == <<"p","a","s","s","w","o","r">>
EmailAB == <<"a","@","b",".","c","o">>
EmailXY == <<"x","@","y",".","c","o","m">>
NameAnn == <<"A","n","n">>
NamePadded == <<" ","A","n","n"," ">>

Payload(json, email, password, name, age) ==
    [json |-> json, email |-> email, password |-> password, name |-> name, age |-> age]

ValidPayloads ==
    { Payload("ok", EmailAB, GoodPassword, NamePadded, 18),
      Payload("ok", EmailXY, GoodPassword, NameAnn, 120) }

InvalidPayloads ==
    { Payload("malformed", EmailAB, GoodPassword, NameAnn, 18),
      Payload("ok", <<"n","o","t","-","a","n","-","e","m","a","i","l">>, GoodPassword, NameAnn, 18),
      Payload("ok", <<"a","@",".","c","o">>, GoodPassword, NameAnn, 18),
      Payload("ok", EmailAB, ShortPassword, NameAnn, 18),
      Payload("ok", EmailAB, GoodPassword, <<" ","\t">>, 18),
      Payload("ok", EmailAB, GoodPassword, NameAnn, 17),
      Payload("ok", EmailAB, GoodPassword, NameAnn, 121) }

Payloads == ValidPayloads \cup InvalidPayloads

(* the id query parameters clients send to GetUser *)
QueryIDs == { <<>>, <<"x">>, <<"0","1">> } \cup { Itoa(n) : n \in 1..MaxRequests }

-----------------------------------------------------------------------------
(* json.NewDecoder(r.Body).Decode(&request) *)

ZeroRequest == [Email |-> <<>>, Password |-> <<>>, Name |-> <<>>, Age |-> 0]

Decode(payload) ==
    IF payload.json = "ok"
    THEN [err |-> "nil",
          request |-> [Email |-> payload.email, Password |-> payload.password,
                       Name |-> payload.name, Age |-> payload.age]]
    ELSE [err |-> "invalid character", request |-> ZeroRequest]

(* the validation chain without the check of the name *)
ValidationError_NoNameCheck(request) ==
    IF ~EmailMatches(request.Email) THEN "Invalid email format"
    ELSE IF Len(request.Password) < MinPasswordLen THEN "Password must be at least 8 characters"
    ELSE IF request.Age < MinAge \/ request.Age > MaxAge THEN "Age must be between 18 and 120"
    ELSE ""

(* the validation chain with an age check that has no upper limit *)
ValidationError_NoUpperAge(request) ==
    IF ~EmailMatches(request.Email) THEN "Invalid email format"
    ELSE IF Len(request.Password) < MinPasswordLen THEN "Password must be at least 8 characters"
    ELSE IF TrimSpace(request.Name) = <<>> THEN "Name is required"
    ELSE IF request.Age < MinAge THEN "Age must be between 18 and 120"
    ELSE ""

(* the validation chain: the message of the first failing check, "" if none *)
ValidationError(request) ==
    IF ~EmailMatches(request.Email) THEN "Invalid email format"
    ELSE IF Len(request.Password) < MinPasswordLen THEN "Password must be at least 8 characters"
    ELSE IF TrimSpace(request.Name) = <<>> THEN "Name is required"
    ELSE IF request.Age < MinAge \/ request.Age > MaxAge THEN "Age must be between 18 and 120"
    ELSE ""

-----------------------------------------------------------------------------
(* http.ResponseWriter: the header map, and what has gone out on the wire *)

NoBody == [empty |-> TRUE]

NewResponseWriter ==
    [header |-> "", wroteHeader |-> FALSE, status |-> 0, contentType |-> "", body |-> NoBody]

(* w.Header().Set("Content-Type", v): changes the map, not a status line already sent *)
SetContentType(w, v) == [w EXCEPT !.header = v]

(* w.WriteHeader(code): the status line goes out with the header map as it is now *)
WriteHeader(w, code) ==
    IF w.wroteHeader THEN w
    ELSE [w EXCEPT !.wroteHeader = TRUE, !.status = code, !.contentType = w.header]

(* http.DetectContentType on the first bytes of a JSON document *)
DetectContentType(v) == "text/plain; charset=utf-8"

(* json.NewEncoder(w).Encode(v): an implicit WriteHeader(200), and a sniffed
   Content-Type when the sent header has none *)
Encode(w, v) ==
    LET w1 == WriteHeader(w, 200) IN
    [w1 EXCEPT !.body = v,
               !.contentType = IF w1.contentType = "" THEN DetectContentType(v)
                               ELSE w1.contentType]

ErrorBody(msg) == [error |-> msg]

(* w.WriteHeader(code); json.NewEncoder(w).Encode(map[string]string{"error": msg}) *)
WriteError(w, code, msg) == Encode(WriteHeader(w, code), ErrorBody(msg))

-----------------------------------------------------------------------------
(* The users table behind h.db, in insertion order *)

ErrNoRows == "sql: no rows in result set"
ErrStore == "pq: connection failure"
ErrSyntax == "pq: invalid input syntax for type integer"

NoRow == [id |-> 0, email |-> <<>>, name |-> <<>>, age |-> 0, created_at |-> 0]

Min(S) == CHOOSE x \in S : \A y \in S : x <= y

(* SELECT id FROM users WHERE email = $1 *)
SelectIDByEmail(table, email) ==
    LET m == { k \in 1..Len(table) : table[k].email = email } IN
    IF m = {} THEN [err |-> ErrNoRows, id |-> 0]
    ELSE [err |-> "nil", id |-> table[Min(m)].id]

(* an INSERT that leaves out a row whose email the table already holds *)
InsertUser_UniqueEmail(table, id, email, hash, name, age, createdAt) ==
    IF \E k \in 1..Len(table) : table[k].email = email THEN table
    ELSE Append(table, [id |-> id, email |-> email, password_hash |-> hash,
                        name |-> name, age |-> age, created_at |-> createdAt])

(* INSERT INTO users (email, password_hash, name, age, created_at)
   VALUES ($1, $2, $3, $4, $5) RETURNING id *)
InsertUser(table, id, email, hash, name, age, createdAt) ==
    Append(table, [id |-> id, email |-> email, password_hash |-> hash,
                   name |-> name, age |-> age, created_at |-> createdAt])

(* SELECT id, email, name, age, created_at FROM users WHERE id = $1,
   $1 being the text of the query parameter *)
SelectUserByID(table, param) ==
    IF ~AllIn(param, Digit) THEN [err |-> ErrSyntax, row |-> NoRow]
    ELSE LET m == { k \in 1..Len(table) : table[k].id = ParseDigits(param) } IN
         IF m = {} THEN [err |-> ErrNoRows, row |-> NoRow]
         ELSE [err |-> "nil",
               row |-> [id |-> table[Min(m)].id, email |-> table[Min(m)].email,
                        name |-> table[Min(m)].name, age |-> table[Min(m)].age,
                        created_at |-> table[Min(m)].created_at]]

-----------------------------------------------------------------------------
(* Request goroutines *)

NoPayload == Payload("none", <<>>, <<>>, <<>>, 0)

IdleCreate ==
    [pc |-> "idle", payload |-> NoPayload, request |-> ZeroRequest,
     w |-> NewResponseWriter, stmts |-> <<>>, logged |-> "",
     checkErr |-> "", insertErr |-> "", userID |-> 0]

IdleGet ==
    [pc |-> "idle", userID |-> <<>>, w |-> NewResponseWriter, stmts |-> <<>>,
     logged |-> "", err |-> "", row |-> NoRow]

Init ==
    /\ users = <<>>
    /\ nextID = 1
    /\ clock = 0
    /\ started = 0
    /\ cr = [p \in CreateProcs |-> IdleCreate]
    /\ gr = [g \in GetProcs |-> IdleGet]

(* a success response that reports the trimmed name *)
CreatedBody_TrimmedName(request, userID, now) ==
    [id |-> userID, email |-> request.Email, name |-> TrimSpace(request.Name),
     age |-> request.Age, created_at |-> FormatRFC3339(now),
     message |-> "User created successfully"]

(* the response map of the success path of CreateUser *)
CreatedBody(request, userID, now) ==
    [id |-> userID, email |-> request.Email, name |-> request.Name,
     age |-> request.Age, created_at |-> FormatRFC3339(now),
     message |-> "User created successfully"]

(* an existence check whose found row is not a conflict *)
CheckFailure_NoConflict(err) ==
    IF err # "nil" /\ err # ErrNoRows THEN [code |-> 500, msg |-> "Internal server error"]
    ELSE [code |-> 0, msg |-> ""]

(* an existence check that answers with the text of the store error *)
CheckFailure_LeaksError(err) ==
    IF err # "nil" /\ err # ErrNoRows THEN [code |-> 500, msg |-> err]
    ELSE IF err = "nil" THEN [code |-> 409, msg |-> "User with this email already exists"]
    ELSE [code |-> 0, msg |-> ""]

(* the status and message CreateUser answers a failed existence check with *)
CheckFailure(err) ==
    IF err # "nil" /\ err # ErrNoRows THEN [code |-> 500, msg |-> "Internal server error"]
    ELSE IF err = "nil" THEN [code |-> 409, msg |-> "User with this email already exists"]
    ELSE [code |-> 0, msg |-> ""]

(* CreateUser from the decoding of the body to the answer of the existence check *)
CreateUserCheck(p) ==
    /\ cr[p].pc = "idle"
    /\ started < MaxRequests
    /\ started' = started + 1
    /\ \E payload \in Payloads : \E fault \in BOOLEAN :
        LET d == Decode(payload)
            me == [cr[p] EXCEPT !.payload = payload, !.request = d.request]
            verr == ValidationError(d.request)
            res == IF fault THEN [err |-> ErrStore, id |-> 0]
                   ELSE SelectIDByEmail(users, d.request.Email)
            f == CheckFailure(res.err)
            asked == [me EXCEPT !.stmts = Append(@, "SELECT"), !.checkErr = res.err]
        IN
        IF d.err # "nil" THEN
            /\ ~fault
            /\ cr' = [cr EXCEPT ![p] = [me EXCEPT !.pc = "done",
                        !.w = WriteError(@, 400, "Invalid JSON")]]
        ELSE IF verr # "" THEN
            /\ ~fault
            /\ cr' = [cr EXCEPT ![p] = [me EXCEPT !.pc = "done",
                        !.w = WriteError(@, 400, verr)]]
        ELSE IF f.code # 0 THEN
            cr' = [cr EXCEPT ![p] = [asked EXCEPT !.pc = "done",
                        !.logged = IF f.code = 500 THEN res.err ELSE @,
                        !.w = WriteError(@, f.code, f.msg)]]
        ELSE
            cr' = [cr EXCEPT ![p] = [asked EXCEPT !.pc = "insert"]]
    /\ UNCHANGED <<users, nextID, clock, gr>>

(* CreateUser: the hashing of the password and the INSERT *)
CreateUserInsert(p) ==
    /\ cr[p].pc = "insert"
    /\ \E fault \in BOOLEAN :
        LET me == [cr[p] EXCEPT !.stmts = Append(@, "INSERT")]
            r == cr[p].request
        IN
        IF fault THEN
            /\ cr' = [cr EXCEPT ![p] = [me EXCEPT !.pc = "done",
                        !.insertErr = ErrStore, !.logged = ErrStore,
                        !.w = WriteError(@, 500, "Failed to create user")]]
            /\ nextID' = nextID
            /\ users' = users
        ELSE
            /\ users' = InsertUser(users, nextID, r.Email, HashPassword(r.Password),
                                   r.Name, r.Age, clock)
            /\ nextID' = nextID + 1
            /\ cr' = [cr EXCEPT ![p] = [me EXCEPT !.pc = "respond",
                        !.insertErr = "nil", !.userID = nextID]]
    /\ UNCHANGED <<clock, started, gr>>

(* CreateUser: the 201 response *)
CreateUserRespond(p) ==
    /\ cr[p].pc = "respond"
    /\ cr' = [cr EXCEPT ![p] = [@ EXCEPT !.pc = "done",
                !.w = Encode(WriteHeader(SetContentType(@, "application/json"), 201),
                             CreatedBody(cr[p].request, cr[p].userID, clock))]]
    /\ UNCHANGED <<users, nextID, clock, started, gr>>

(* the response map of the success path of GetUser *)
FoundBody(row) ==
    [id |-> row.id, email |-> row.email, name |-> row.name, age |-> row.age,
     created_at |-> FormatRFC3339(row.created_at)]

(* a lookup that treats no rows as any other store error *)
QueryFailure_NoRowsIsError(err) ==
    IF err # "nil" THEN [code |-> 500, msg |-> "Internal server error"]
    ELSE [code |-> 0, msg |-> ""]

(* the status and message GetUser answers a failed query with *)
QueryFailure(err) ==
    IF err = ErrNoRows THEN [code |-> 404, msg |-> "User not found"]
    ELSE IF err # "nil" THEN [code |-> 500, msg |-> "Internal server error"]
    ELSE [code |-> 0, msg |-> ""]

(* GetUser *)
GetUser(g) ==
    /\ gr[g].pc = "idle"
    /\ started < MaxRequests
    /\ started' = started + 1
    /\ \E userID \in QueryIDs : \E fault \in BOOLEAN :
        LET me == [gr[g] EXCEPT !.userID = userID, !.pc = "done"]
            res == IF fault THEN [err |-> ErrStore, row |-> NoRow]
                   ELSE SelectUserByID(users, userID)
            f == QueryFailure(res.err)
            asked == [me EXCEPT !.stmts = Append(@, "SELECT"), !.err = res.err]
        IN
        IF userID = <<>> THEN
            /\ ~fault
            /\ gr' = [gr EXCEPT ![g] = [me EXCEPT !.w = WriteError(@, 400, "User ID is required")]]
        ELSE IF f.code # 0 THEN
            gr' = [gr EXCEPT ![g] = [asked EXCEPT
                        !.logged = IF f.code = 500 THEN res.err ELSE @,
                        !.w = WriteError(@, f.code, f.msg)]]
        ELSE
            gr' = [gr EXCEPT ![g] = [asked EXCEPT !.row = res.row,
                        !.w = Encode(SetContentType(@, "application/json"),
                                     FoundBody(res.row))]]
    /\ UNCHANGED <<users, nextID, clock, cr>>

(* a handler has returned and its goroutine takes the next request *)
CreateUserReturn(p) ==
    /\ cr[p].pc = "done"
    /\ cr' = [cr EXCEPT ![p] = IdleCreate]
    /\ UNCHANGED <<users, nextID, clock, started, gr>>

GetUserReturn(g) ==
    /\ gr[g].pc = "done"
    /\ gr' = [gr EXCEPT ![g] = IdleGet]
    /\ UNCHANGED <<users, nextID, clock, started, cr>>

(* time passes *)
Tick ==
    /\ clock < MaxClock
    /\ clock' = clock + 1
    /\ UNCHANGED <<users, nextID, started, cr, gr>>

Next ==
    \/ \E p \in CreateProcs : CreateUserCheck(p)
    \/ \E p \in CreateProcs : CreateUserInsert(p)
    \/ \E p \in CreateProcs : CreateUserRespond(p)
    \/ \E g \in GetProcs : GetUser(g)
    \/ \E p \in CreateProcs : CreateUserReturn(p)
    \/ \E g \in GetProcs : GetUserReturn(g)
    \/ Tick

Spec == Init /\ [][Next]_vars

(* requests handled one at a time: a handler runs from its first line to its
   response before any other handler starts *)
InFlight(p) == cr[p].pc \in {"insert", "respond"}

Alone(p) == \A q \in CreateProcs \ {p} : ~InFlight(q)

SeqNext ==
    \/ \E p \in CreateProcs : Alone(p) /\ CreateUserCheck(p)
    \/ \E p \in CreateProcs : Alone(p) /\ CreateUserInsert(p)
    \/ \E p \in CreateProcs : Alone(p) /\ CreateUserRespond(p)
    \/ \E g \in GetProcs : (\A q \in CreateProcs : ~InFlight(q)) /\ GetUser(g)
    \/ \E p \in CreateProcs : CreateUserReturn(p)
    \/ \E g \in GetProcs : GetUserReturn(g)
    \/ Tick

SeqSpec == Init /\ [][SeqNext]_vars

-----------------------------------------------------------------------------
(* Vocabulary of the properties *)

Done(p) == cr[p].pc = "done"

Rows == { users[k] : k \in 1..Len(users) }

RowOf(id) == CHOOSE r \in Rows : r.id = id

(* a payload that fails one of the validation checks of CreateUser *)
InvalidPayload(pl) ==
    \/ pl.json # "ok"
    \/ ~EmailMatches(pl.email)
    \/ Len(pl.password) < 8
    \/ TrimSpace(pl.name) = <<>>
    \/ pl.age < 18
    \/ pl.age > 120

(* C1: a CreateUser request whose payload fails a validation check is answered
   400 in the step that takes it, without a statement sent to the store and
   with the users table as it was. *)
C1_InvalidInputRejected ==
    [][\A p \in CreateProcs :
        (cr[p].pc = "idle" /\ cr'[p].pc # "idle" /\ InvalidPayload(cr'[p].payload))
        => /\ cr'[p].pc = "done"
           /\ cr'[p].w.status = 400
           /\ cr'[p].stmts = <<>>
           /\ users' = users
           /\ nextID' = nextID]_vars

C1_Witness ==
    \E p \in CreateProcs :
        /\ Done(p)
        /\ cr[p].payload.json = "ok"
        /\ cr[p].payload.age = 121
        /\ cr[p].w.status = 400
        /\ Len(users) >= 1

NoDuplicateEmail ==
    \A i, j \in 1..Len(users) : users[i].email = users[j].email => i = j

(* C2: with requests handled one at a time, a valid registration for the email
   of an existing row is answered 409 and inserts nothing (unless the existence
   check itself fails), and no two rows share an email. *)
C2_SequentialConflict ==
    /\ []NoDuplicateEmail
    /\ [][\A p \in CreateProcs :
            (/\ cr[p].pc = "idle" /\ cr'[p].pc # "idle"
             /\ ~InvalidPayload(cr'[p].payload)
             /\ \E r \in Rows : r.email = cr'[p].payload.email
             /\ cr'[p].checkErr # ErrStore)
            => /\ cr'[p].pc = "done"
               /\ cr'[p].w.status = 409
               /\ users' = users]_vars

C2_Witness ==
    \E p \in CreateProcs :
        /\ Done(p)
        /\ cr[p].w.status = 409
        /\ \E r \in Rows : r.email = cr[p].payload.email

(* two finished registrations for one email that both saw no row in the
   existence check and whose INSERT did not fail *)
Raced(p, q) ==
    /\ p # q
    /\ Done(p) /\ Done(q)
    /\ cr[p].request.Email = cr[q].request.Email
    /\ cr[p].checkErr = ErrNoRows /\ cr[q].checkErr = ErrNoRows
    /\ cr[p].insertErr = "nil" /\ cr[q].insertErr = "nil"

(* C3: two concurrent registrations for one email whose existence checks both
   ran before either INSERT both insert and both answer 201: the table then
   holds two rows with that email. *)
C3_RaceInsertsTwice ==
    \A p, q \in CreateProcs :
        Raced(p, q)
        => /\ cr[p].w.status = 201 /\ cr[q].w.status = 201
           /\ cr[p].userID # cr[q].userID
           /\ \E r1, r2 \in Rows :
                /\ r1.id = cr[p].userID /\ r2.id = cr[q].userID
                /\ r1.email = cr[p].request.Email
                /\ r2.email = r1.email

C3_Witness ==
    /\ \E p, q \in CreateProcs : Raced(p, q)
    /\ ~NoDuplicateEmail

(* C4: the name of the inserted row is the submitted name with leading and
   trailing whitespace removed. *)
C4_StoredNameTrimmed ==
    \A p \in CreateProcs :
        (cr[p].pc \in {"respond", "done"} /\ cr[p].userID # 0)
        => RowOf(cr[p].userID).name = TrimSpace(cr[p].payload.name)

(* C5: a GetUser that runs after a 201 response, for the id of that response
   and without a store error, answers 200 with the id, email, name and age of
   the 201 response and of the submitted payload. *)
C5_RoundTrip ==
    [][\A g \in GetProcs : \A p \in CreateProcs :
        (/\ gr[g].pc = "idle" /\ gr'[g].pc = "done"
         /\ Done(p) /\ cr[p].w.status = 201
         /\ gr'[g].userID = Itoa(cr[p].w.body.id)
         /\ gr'[g].err # ErrStore)
        => /\ gr'[g].w.status = 200
           /\ gr'[g].w.body.id = cr[p].w.body.id
           /\ gr'[g].w.body.email = cr[p].w.body.email
           /\ gr'[g].w.body.name = cr[p].w.body.name
           /\ gr'[g].w.body.age = cr[p].w.body.age
           /\ gr'[g].w.body.email = cr[p].payload.email
           /\ gr'[g].w.body.name = cr[p].payload.name
           /\ gr'[g].w.body.age = cr[p].payload.age]_vars

C5_Witness ==
    \E g \in GetProcs : \E p \in CreateProcs :
        /\ Done(p) /\ cr[p].w.status = 201
        /\ gr[g].pc = "done" /\ gr[g].w.status = 200
        /\ gr[g].userID = Itoa(cr[p].w.body.id)
        /\ cr[p].payload.name = NamePadded

(* C6: GetUser answers 400 "User ID is required" without a statement for an
   empty id, 500 "Internal server error" for a store error other than no rows,
   404 "User not found" when no row has the id, and otherwise 200 with the
   row's id, email, name, age and created_at; the table is as it was. *)
C6_GetUserOutcomes ==
    [][\A g \in GetProcs :
        (gr[g].pc = "idle" /\ gr'[g].pc = "done")
        => LET me == gr'[g]
               found == { r \in Rows : r.id = ParseDigits(me.userID) }
           IN
           /\ users' = users
           /\ nextID' = nextID
           /\ IF me.userID = <<>> THEN
                 /\ me.w.status = 400
                 /\ me.w.body = ErrorBody("User ID is required")
                 /\ me.stmts = <<>>
              ELSE IF me.err \in {ErrStore, ErrSyntax} THEN
                 /\ me.w.status = 500
                 /\ me.w.body = ErrorBody("Internal server error")
              ELSE IF found = {} THEN
                 /\ me.w.status = 404
                 /\ me.w.body = ErrorBody("User not found")
              ELSE
                 /\ me.w.status = 200
                 /\ \E r \in found :
                      me.w.body = [id |-> r.id, email |-> r.email, name |-> r.name,
                                   age |-> r.age,
                                   created_at |-> FormatRFC3339(r.created_at)]]_vars

C6_Witness ==
    \E g \in GetProcs :
        /\ gr[g].pc = "done"
        /\ gr[g].w.status = 200
        /\ gr[g].userID = <<"0", "1">>
        /\ Len(users) >= 2

(* C7: every response of CreateUser and GetUser goes out with the header
   Content-Type: application/json. *)
C7_JSONContentType ==
    /\ \A p \in CreateProcs : Done(p) => cr[p].w.contentType = "application/json"
    /\ \A g \in GetProcs : gr[g].pc = "done" => gr[g].w.contentType = "application/json"

(* C8: in CreateUser a store error of the existence check is answered 500
   "Internal server error" with no INSERT sent, a store error of the INSERT is
   answered 500 "Failed to create user"; neither changes the table and neither
   response carries the text of the error. *)
C8_StoreFailures ==
    /\ [](\A p \in CreateProcs :
            /\ (Done(p) /\ cr[p].checkErr \notin {"", "nil", ErrNoRows})
               => /\ cr[p].w.status = 500
                  /\ cr[p].w.body = ErrorBody("Internal server error")
                  /\ cr[p].w.body.error # cr[p].checkErr
                  /\ cr[p].stmts = <<"SELECT">>
                  /\ cr[p].userID = 0
            /\ (Done(p) /\ cr[p].insertErr \notin {"", "nil"})
               => /\ cr[p].w.status = 500
                  /\ cr[p].w.body = ErrorBody("Failed to create user")
                  /\ cr[p].w.body.error # cr[p].insertErr
                  /\ cr[p].userID = 0)
    /\ [][\A p \in CreateProcs :
            (~Done(p) /\ cr'[p].pc = "done" /\ cr'[p].w.status = 500)
            => users' = users]_vars

C8_Witness ==
    \E p, q \in CreateProcs :
        /\ Done(p) /\ cr[p].insertErr = ErrStore
        /\ Done(q) /\ cr[q].checkErr = ErrStore

(* C9: the created_at of the 201 response is the created_at of the inserted
   row, as a later GetUser of the id returns it. *)
C9_CreatedAtIsStored ==
    \A p \in CreateProcs :
        (Done(p) /\ cr[p].w.status = 201)
        => cr[p].w.body.created_at = FoundBody(RowOf(cr[p].w.body.id)).created_at

RowValid(r) ==
    /\ 18 <= r.age /\ r.age <= 120
    /\ TrimSpace(r.name) # <<>>
    /\ EmailMatches(r.email)
    /\ Len(r.password_hash) >= Len(HashPrefix) + 8
    /\ SubSeq(r.password_hash, 1, Len(HashPrefix)) = HashPrefix

(* C10: every row of the table has 18 <= age <= 120, a name that is not blank,
   an email matching the pattern and the hash of a password of at least 8
   characters, and a row once inserted stays as it is. *)
C10_RowsValidAndImmutable ==
    /\ [](\A r \in Rows : RowValid(r))
    /\ [][/\ Len(users') >= Len(users)
          /\ SubSeq(users', 1, Len(users)) = users]_vars

C10_Witness ==
    /\ \E r \in Rows : r.age = 18
    /\ \E r \in Rows : r.age = 120

=============================================================================
